---- MODULE Spec2Model ----
(***************************************************************************)
(* A model of geecache: the LRU store (package lru), the namespace         *)
(* (Group, cache, ByteView), the call deduplicator (package singleflight)  *)
(* and the consistent-hash ring (package consistenthash).  Each component  *)
(* has its own specification over its own variables; the variables of the *)
(* other components stay at their initial values.                          *)
(***************************************************************************)
EXTENDS Integers, Sequences, FiniteSets, TLC

VARIABLES
    \* ---- package lru / cache.lru
    lru,        \* *lru.Cache: <<>> is nil, <<c>> a Cache record
    heap,       \* the byte buffers ([]byte backing arrays), by reference
    recency,    \* history: the live keys, least recently touched first
    lastOp,     \* history: the last lru operation, its key, value length, victims
    \* ---- Group (geecache.go, cache.go, byteview.go)
    cacheBytes, \* Group.mainCache.cacheBytes
    gpc,        \* per caller: position in Group.Get
    gkey,       \* per caller: the key passed to Group.Get
    gval,       \* per caller: the ByteView built by getLocally / returned
    gerr,       \* per caller: the error returned ("" is nil)
    loads,      \* per key: how many times the Getter was invoked
    loadOK,     \* history: the keys for which the Getter ever succeeded
    loaderBufs, \* the buffers the Getter returned (the Getter keeps them)
    copies,     \* per caller: the buffers ByteSlice() handed out
    origin,     \* history: per buffer, the bytes it held when it was made
    settled,    \* history: per key, the bytes of the first successful Get (<<>>: none)
    gafter,     \* history: per caller, settled[key] when its Get began
    cmu,        \* cache.mu: the caller that holds it (0: unlocked)
    \* ---- package singleflight
    sfm,        \* Group.m: <<>> is the nil map, <<t>> a map key -> *call
    calls,      \* the call objects, by reference: wg, val, err
    spc,        \* per caller: position in Group.Do
    skey,       \* per caller: the key passed to Do
    sc,         \* per caller: its local c, a reference into calls (0: unset)
    sret,       \* per caller: the (val, err) Do returned
    fnRuns,     \* per key: the counter the instrumented fn increments
    late,       \* history: per caller, whether a Do of its key had returned
                \* when it called Do
    sfmu,       \* Group.mu: the caller that holds it (0: unlocked)
    stale,      \* history: per caller, the highest count returned to a Do of
                \* its key that ran fn and had returned when it called Do
    \* ---- package consistenthash
    ring,       \* the Map: keys (the sorted hashes) and hashMap
    replicas,   \* Map.replicas
    hash,       \* Map.hash, on the strings hashed so far
    added,      \* history: the peers passed to Add so far
    got,        \* the last Get since the last Add: its key and the peer returned
    \* ---- the registry (geecache.go: mu, groups, NewGroup, GetGroup)
    groups,     \* groups: name -> the Group registered (its getter, its maker)
    regmu,      \* mu: the caller that holds the write lock (0: none) and the
                \* callers that hold a read lock
    rpc,        \* per caller: position in NewGroup / GetGroup
    rarg,       \* per caller: the arguments of its call
    rret,       \* per caller: what GetGroup / NewGroup returned (<<>>: nil)
    \* ---- Cache.Add, statement by statement
    putpc       \* the position of the Add in progress

lruVars == <<lru, heap, recency, lastOp>>
groupVars == <<cacheBytes, gpc, gkey, gval, gerr, loads, loadOK, loaderBufs,
               copies, origin, settled, gafter, cmu>>
sfVars == <<sfm, calls, spc, skey, sc, sret, fnRuns, late, sfmu, stale>>
ringVars == <<ring, replicas, hash, added, got>>
regVars == <<groups, regmu, rpc, rarg, rret>>
putVars == <<putpc>>
vars == <<lruVars, groupVars, sfVars, ringVars, regVars, putVars>>

(***************************************************************************)
(* Bounds and input alphabets.                                             *)
(***************************************************************************)
MaxCap == 4
MaxNeg == 1
NProcs == 3
Procs == 1..NProcs
GroupKeys == {"", "a", "bb"}
GroupCaps == {0, 3}
LoaderValues == {<<1>>, <<2, 2>>}
SfKeys == {"a", "b"}
FnErrs == {"", "boom"}
MaxReplicas == 2
HashSpace == 3
MaxNodes == 4
Peers == {"A", "B", "C"}
LookupKeys == {"k", "0A"}
LruKeys == {"a", "b", "cc"}
ValueBufs == <<<< >>, <<7>>, <<7, 8>>>>

Min(S) == CHOOSE x \in S : \A y \in S : x <= y

(***************************************************************************)
(* byteview.go                                                             *)
(***************************************************************************)
\* ByteView{b}: b is a reference into heap.
ByteView(ref) == [b |-> ref]

\* The bytes a ByteView reads: reference 0 is the nil slice of ByteView{}.
Bytes(v) == IF v.b = 0 THEN << >> ELSE heap[v.b]

\* ByteView.Len
VLen(v) == Len(Bytes(v))

\* A mutation of cloneBytes: the slice itself is handed back, not a copy.
cloneBytesAlias(h, ref, new) == [heap |-> h, ref |-> ref]

\* cloneBytes: make() allocates the buffer new and copy() fills it with the
\* bytes of ref; the heap after it and the reference of the copy.
cloneBytes(h, ref, new) == [heap |-> h @@ (new :> h[ref]), ref |-> new]

(***************************************************************************)
(* package lru                                                             *)
(***************************************************************************)
\* lru.New: ll is the list front first, cache the keys of the index.
LruNew(maxBytes) ==
    [maxBytes |-> maxBytes, nbytes |-> 0, ll |-> << >>, cache |-> {}]

\* The position in ll of the element the index holds for key.
IndexOf(ll, key) == CHOOSE i \in 1..Len(ll) : ll[i].key = key

\* list.MoveToFront
MoveToFront(ll, i) ==
    <<ll[i]>> \o SubSeq(ll, 1, i - 1) \o SubSeq(ll, i + 1, Len(ll))

\* Cache.RemoveOldest
LruRemoveOldest(c) ==
    IF Len(c.ll) = 0
    THEN c
    ELSE LET kv == c.ll[Len(c.ll)]
         IN  [c EXCEPT !.ll = SubSeq(c.ll, 1, Len(c.ll) - 1),
                       !.cache = @ \ {kv.key},
                       !.nbytes = @ - (Len(kv.key) + VLen(kv.value))]

\* A mutation of EvictLoop: "if" in place of "for", one eviction at most.
EvictOnce(c) ==
    IF c.maxBytes # 0 /\ c.maxBytes < c.nbytes THEN LruRemoveOldest(c) ELSE c

\* Cache.Add, the loop: for c.maxBytes != 0 && c.maxBytes < c.nbytes
RECURSIVE EvictLoop(_)
EvictLoop(c) ==
    IF c.maxBytes # 0 /\ c.maxBytes < c.nbytes
    THEN EvictLoop(LruRemoveOldest(c))
    ELSE c

\* A mutation of LruInsert: the update of an existing key leaves nbytes as
\* it was.
LruInsertNoDelta(c, key, value) ==
    IF key \in c.cache
    THEN LET i == IndexOf(c.ll, key)
             moved == MoveToFront(c.ll, i)
         IN  [c EXCEPT !.ll = <<[key |-> key, value |-> value]>> \o Tail(moved)]
    ELSE [c EXCEPT !.ll = <<[key |-> key, value |-> value]>> \o @,
                   !.cache = @ \cup {key},
                   !.nbytes = @ + Len(key) + VLen(value)]

\* Cache.Add, the two branches before the loop
LruInsert(c, key, value) ==
    IF key \in c.cache
    THEN LET i == IndexOf(c.ll, key)
             moved == MoveToFront(c.ll, i)
         IN  [c EXCEPT !.ll = <<[key |-> key, value |-> value]>> \o Tail(moved),
                       !.nbytes = @ + VLen(value) - VLen(c.ll[i].value)]
    ELSE [c EXCEPT !.ll = <<[key |-> key, value |-> value]>> \o @,
                   !.cache = @ \cup {key},
                   !.nbytes = @ + Len(key) + VLen(value)]

\* A mutation of LruAdd: an entry larger than the capacity is refused.
LruAddGated(c, key, value) ==
    IF c.maxBytes # 0 /\ c.maxBytes < Len(key) + VLen(value)
    THEN c
    ELSE EvictLoop(LruInsert(c, key, value))

\* Cache.Add
LruAdd(c, key, value) == EvictLoop(LruInsert(c, key, value))

\* A mutation of LruTouch: a hit that does not move the entry.
LruTouchNot(c, key) == c

\* Cache.Get, the cache after the call: a hit moves the entry to the front
LruTouch(c, key) ==
    IF key \in c.cache
    THEN [c EXCEPT !.ll = MoveToFront(@, IndexOf(@, key))]
    ELSE c

\* Cache.Get, the (value, ok) returned: << >> is (nil, false)
LruGet(c, key) ==
    IF key \in c.cache THEN <<c.ll[IndexOf(c.ll, key)].value>> ELSE << >>

\* Cache.Len
LruLen(c) == Len(c.ll)

(***************************************************************************)
(* History of touches, kept beside the lru: Touched(r, k) is the order     *)
(* after key k is touched, Live(r, S) what is left of it for the keys S.   *)
(***************************************************************************)
Without(r, k) == SelectSeq(r, LAMBDA x : x # k)
Touched(r, k) == Append(Without(r, k), k)
Live(r, S) == SelectSeq(r, LAMBDA x : x \in S)

NoOp == [op |-> "New", key |-> "", victims |-> {}, rescued |-> {},
         over |-> FALSE, vlen |-> 0]

(***************************************************************************)
(* The lru alone: a client that calls Add, Get and RemoveOldest.           *)
(***************************************************************************)
GroupIdle ==
    /\ cacheBytes = 0
    /\ gpc = << >> /\ gkey = << >> /\ gval = << >> /\ gerr = << >>
    /\ loads = << >> /\ loadOK = {} /\ loaderBufs = {} /\ copies = << >>
    /\ origin = << >> /\ settled = << >> /\ gafter = << >> /\ cmu = 0

SfIdle ==
    /\ sfm = << >> /\ calls = << >>
    /\ spc = << >> /\ skey = << >> /\ sc = << >> /\ sret = << >>
    /\ fnRuns = << >> /\ late = << >> /\ sfmu = 0 /\ stale = << >>

NoGet == [key |-> "", peer |-> ""]

RingIdle ==
    /\ ring = [keys |-> << >>, hashMap |-> << >>]
    /\ replicas = 0 /\ hash = << >> /\ added = {} /\ got = NoGet

LruIdle ==
    /\ lru = << >> /\ heap = << >> /\ recency = << >> /\ lastOp = NoOp

NoLock == [w |-> 0, r |-> {}]

RegIdle ==
    /\ groups = << >> /\ regmu = NoLock
    /\ rpc = << >> /\ rarg = << >> /\ rret = << >>

PutIdle == putpc = "idle"

LruInit ==
    /\ \E mb \in 0..MaxCap : lru = <<LruNew(mb)>>
    /\ heap = ValueBufs
    /\ recency = << >>
    /\ lastOp = NoOp
    /\ GroupIdle
    /\ SfIdle
    /\ RingIdle
    /\ RegIdle
    /\ PutIdle

DoAdd(key, ref) ==
    LET c == LruAdd(lru[1], key, ByteView(ref))
        r == Touched(recency, key)
    IN  /\ lru' = <<c>>
        /\ recency' = Live(r, c.cache)
        /\ lastOp' = [op |-> "Add", key |-> key,
                      victims |-> (lru[1].cache \cup {key}) \ c.cache,
                      rescued |-> IF lastOp.op = "Get"
                                  THEN lastOp.rescued \ {key} ELSE {},
                      over |-> key \in lru[1].cache,
                      vlen |-> VLen(ByteView(ref))]
        /\ UNCHANGED heap

DoGet(key) ==
    LET c == LruTouch(lru[1], key)
    IN  /\ lru' = <<c>>
        /\ recency' = IF key \in lru[1].cache THEN Touched(recency, key) ELSE recency
        /\ lastOp' = [op |-> "Get", key |-> key, victims |-> {},
                      rescued |-> IF /\ Len(lru[1].ll) >= 2
                                     /\ lru[1].ll[Len(lru[1].ll)].key = key
                                  THEN {key} ELSE {},
                      over |-> FALSE, vlen |-> 0]
        /\ UNCHANGED heap

DoRemoveOldest ==
    LET c == LruRemoveOldest(lru[1])
    IN  /\ lru' = <<c>>
        /\ recency' = Live(recency, c.cache)
        /\ lastOp' = [op |-> "RemoveOldest", key |-> "",
                      victims |-> lru[1].cache \ c.cache, rescued |-> {},
                      over |-> FALSE, vlen |-> 0]
        /\ UNCHANGED heap

LruNext ==
    \/ \E key \in LruKeys, ref \in 1..Len(ValueBufs) :
          DoAdd(key, ref) /\ UNCHANGED <<groupVars, sfVars, ringVars, regVars, putVars>>
    \/ \E key \in LruKeys :
          DoGet(key) /\ UNCHANGED <<groupVars, sfVars, ringVars, regVars, putVars>>
    \/ DoRemoveOldest /\ UNCHANGED <<groupVars, sfVars, ringVars, regVars, putVars>>

SpecLRU == LruInit /\ [][LruNext]_vars

(***************************************************************************)
(* Claims about the lru.                                                   *)
(***************************************************************************)
RECURSIVE SumBytes(_)
SumBytes(ll) ==
    IF ll = << >> THEN 0
    ELSE Len(Head(ll).key) + VLen(Head(ll).value) + SumBytes(Tail(ll))

Pos(r, k) == CHOOSE i \in 1..Len(r) : r[i] = k

\* C1: with a capacity C > 0, after every operation of the cache the tracked
\* byte usage, and the key+value bytes of the entries held, are at most C.
C1_CapacityBound ==
    (Len(lru) = 1 /\ lru[1].maxBytes > 0)
        => /\ lru[1].nbytes <= lru[1].maxBytes
           /\ SumBytes(lru[1].ll) <= lru[1].maxBytes

\* C1 witness: an Add under a positive capacity evicted two entries and keeps one.
C1_Witness ==
    /\ Len(lru) = 1 /\ lru[1].maxBytes > 0
    /\ lastOp.op = "Add" /\ Cardinality(lastOp.victims) >= 2
    /\ Len(lru[1].ll) >= 1

\* C2: whenever an operation evicts entries, every evicted entry was touched
\* (inserted, overwritten or hit by a get) less recently than every entry that
\* stays; so a get hit on A protects A from the next single eviction.
C2_LruOrder ==
    [][ LET r == IF lastOp'.op = "Add"
                 THEN Touched(recency, lastOp'.key) ELSE recency
        IN  \A e \in lastOp'.victims : \A s \in lru'[1].cache :
                Pos(r, e) < Pos(r, s) ]_vars

\* C2 witness: a get hit on the oldest entry, then an Add that evicted exactly
\* one entry, and the entry that was hit is still held.
C2_Witness ==
    /\ Len(lru) = 1
    /\ lastOp.op = "Add" /\ Cardinality(lastOp.victims) = 1
    /\ lastOp.rescued # {} /\ lastOp.rescued \subseteq lru[1].cache

(***************************************************************************)
(* cache.go: the lru behind the mutex, made on the first add.              *)
(***************************************************************************)
\* cache.add: the lru after it
CacheAdd(l, key, value) ==
    <<LruAdd(IF l = << >> THEN LruNew(cacheBytes) ELSE l[1], key, value)>>

\* cache.get: the (value, ok) returned, << >> for a miss
CacheGet(l, key) == IF l = << >> THEN << >> ELSE LruGet(l[1], key)

\* cache.get: the lru after it
CacheTouch(l, key) == IF l = << >> THEN l ELSE <<LruTouch(l[1], key)>>

CacheKeys(l) == IF l = << >> THEN {} ELSE l[1].cache

(***************************************************************************)
(* geecache.go: Group.Get, one caller p per call.                          *)
(***************************************************************************)
\* The history of origins, extended to the buffers of heap h.
Origins(h) ==
    [i \in DOMAIN h |-> IF i \in DOMAIN origin THEN origin[i] ELSE h[i]]

\* The addresses the allocator hands to caller p: the Getter's slice, the
\* copy getLocally makes of it, the copy ByteSlice makes.
GetterBuf(p) == 3 * (p - 1) + 1
ViewBuf(p) == 3 * (p - 1) + 2
SliceBuf(p) == 3 * (p - 1) + 3

\* Group.Get, after the empty-key check: the cache lookup, then hit or load
GroupLookup(p, key) ==
    LET hit == CacheGet(lru, key)
    IN  /\ gpc[p] = "idle"
        /\ gkey' = [gkey EXCEPT ![p] = key]
        /\ gafter' = [gafter EXCEPT ![p] = settled[key]]
        /\ cmu = 0
        /\ lru' = CacheTouch(lru, key)
        /\ cmu' = 0
        /\ IF hit # << >>
           THEN /\ gpc' = [gpc EXCEPT ![p] = "done"]
                /\ gval' = [gval EXCEPT ![p] = hit[1]]
                /\ settled' = [settled EXCEPT ![key] =
                                  IF @ = << >> THEN <<Bytes(hit[1])>> ELSE @]
           ELSE /\ gpc' = [gpc EXCEPT ![p] = "load"]
                /\ UNCHANGED <<gval, settled>>
        /\ UNCHANGED <<heap, recency, lastOp, cacheBytes, gerr, loads, loadOK,
                       loaderBufs, copies, origin>>

\* Group.Get, key == "": the error return
GroupReject(p, key) ==
    /\ gpc[p] = "idle"
    /\ gkey' = [gkey EXCEPT ![p] = key]
    /\ gpc' = [gpc EXCEPT ![p] = "done"]
    /\ gerr' = [gerr EXCEPT ![p] = "key is required"]
    /\ gval' = [gval EXCEPT ![p] = ByteView(0)]
    /\ UNCHANGED <<lruVars, cacheBytes, loads, loadOK, loaderBufs, copies,
                   origin, settled, gafter, cmu>>

\* A mutation of GroupGet: the key == "" check is missing.
GroupGetUnchecked(p, key) == GroupLookup(p, key)

\* Group.Get
GroupGet(p, key) ==
    IF key = "" THEN GroupReject(p, key) ELSE GroupLookup(p, key)

\* A mutation of GetLocallyFail: the error is ignored and ByteView{} is cached.
GetLocallyFailPopulates(p) ==
    /\ gpc' = [gpc EXCEPT ![p] = "done"]
    /\ gerr' = [gerr EXCEPT ![p] = "getter failed"]
    /\ gval' = [gval EXCEPT ![p] = ByteView(0)]
    /\ lru' = CacheAdd(lru, gkey[p], ByteView(0))
    /\ UNCHANGED <<heap, recency, lastOp, cacheBytes, gkey, loadOK,
                   loaderBufs, copies, origin, settled, gafter, cmu>>

\* getLocally, err != nil: the wrapped error and ByteView{}
GetLocallyFail(p) ==
    /\ gpc' = [gpc EXCEPT ![p] = "done"]
    /\ gerr' = [gerr EXCEPT ![p] = "getter failed"]
    /\ gval' = [gval EXCEPT ![p] = ByteView(0)]
    /\ UNCHANGED <<lruVars, cacheBytes, gkey, loadOK, loaderBufs, copies,
                   origin, settled, gafter, cmu>>

\* getLocally, err == nil: the Getter's slice (which the Getter keeps) is
\* copied by cloneBytes into the ByteView
GetLocallyOK(p, bytes) ==
    LET h1 == heap @@ (GetterBuf(p) :> bytes)
        cl == cloneBytes(h1, GetterBuf(p), ViewBuf(p))
    IN  /\ heap' = cl.heap
        /\ origin' = Origins(cl.heap)
        /\ loaderBufs' = loaderBufs \cup {GetterBuf(p)}
        /\ gval' = [gval EXCEPT ![p] = ByteView(cl.ref)]
        /\ gpc' = [gpc EXCEPT ![p] = "populate"]
        /\ loadOK' = loadOK \cup {gkey[p]}
        /\ UNCHANGED <<lru, recency, lastOp, cacheBytes, gkey, gerr, copies,
                       settled, gafter, cmu>>

\* Group.load / getLocally: g.getter.Get(key) is invoked and returns
GetterGet(p) ==
    /\ gpc[p] = "load"
    /\ loads' = [loads EXCEPT ![gkey[p]] = @ + 1]
    /\ \/ GetLocallyFail(p)
       \/ \E bytes \in LoaderValues : GetLocallyOK(p, bytes)

\* populateCache, then getLocally returns value, nil
PopulateCache(p) ==
    LET key == gkey[p]
        l == CacheAdd(lru, key, gval[p])
    IN  /\ gpc[p] = "populate"
        /\ cmu = 0
        /\ lru' = l
        /\ cmu' = 0
        /\ gpc' = [gpc EXCEPT ![p] = "done"]
        /\ settled' = [k \in GroupKeys |->
                          IF k \notin CacheKeys(l) THEN << >>
                          ELSE IF k = key /\ settled[k] = << >>
                               THEN <<Bytes(gval[p])>>
                               ELSE settled[k]]
        /\ UNCHANGED <<heap, recency, lastOp, cacheBytes, gkey, gval, gerr,
                       loads, loadOK, loaderBufs, copies, origin, gafter>>

\* ByteView.ByteSlice, called by the caller on the value it was returned
ByteSlice(p) ==
    LET cl == cloneBytes(heap, gval[p].b, SliceBuf(p))
    IN  /\ gpc[p] = "done" /\ gerr[p] = "" /\ gval[p].b # 0
        /\ copies[p] = << >>
        /\ heap' = cl.heap
        /\ origin' = Origins(cl.heap)
        /\ copies' = [copies EXCEPT ![p] = <<cl.ref>>]
        /\ UNCHANGED <<lru, recency, lastOp, cacheBytes, gpc, gkey, gval, gerr,
                       loads, loadOK, loaderBufs, settled, gafter, cmu>>

\* The buffers code outside the package holds: the Getter's and the copies.
Exposed == loaderBufs \cup {copies[p][1] : p \in {q \in Procs : copies[q] # << >>}}

\* The Getter, or a caller, overwrites the first byte of a slice it holds.
MutateBuf(ref) ==
    /\ ref \in Exposed
    /\ Len(heap[ref]) >= 1 /\ heap[ref][1] # 9
    /\ heap' = [heap EXCEPT ![ref][1] = 9]
    /\ UNCHANGED <<lru, recency, lastOp, groupVars>>

GroupInit ==
    /\ lru = << >>
    /\ heap = << >>
    /\ recency = << >>
    /\ lastOp = NoOp
    /\ cacheBytes \in GroupCaps
    /\ gpc = [p \in Procs |-> "idle"]
    /\ gkey = [p \in Procs |-> ""]
    /\ gval = [p \in Procs |-> ByteView(0)]
    /\ gerr = [p \in Procs |-> ""]
    /\ loads = [k \in GroupKeys |-> 0]
    /\ loadOK = {}
    /\ loaderBufs = {}
    /\ copies = [p \in Procs |-> << >>]
    /\ origin = << >>
    /\ settled = [k \in GroupKeys |-> << >>]
    /\ gafter = [p \in Procs |-> << >>]
    /\ cmu = 0
    /\ SfIdle
    /\ RingIdle
    /\ RegIdle
    /\ PutIdle

GroupNext ==
    \/ \E p \in Procs, key \in GroupKeys :
          GroupGet(p, key) /\ UNCHANGED <<sfVars, ringVars, regVars, putVars>>
    \/ \E p \in Procs : GetterGet(p) /\ UNCHANGED <<sfVars, ringVars, regVars, putVars>>
    \/ \E p \in Procs : PopulateCache(p) /\ UNCHANGED <<sfVars, ringVars, regVars, putVars>>

SpecGroup == GroupInit /\ [][GroupNext]_vars

(***************************************************************************)
(* The namespace with callers and a Getter that write to the slices they   *)
(* hold, for one key.                                                      *)
(***************************************************************************)
SliceKeys == {"a"}

SliceNext ==
    \/ \E p \in Procs, key \in SliceKeys :
          GroupGet(p, key) /\ UNCHANGED <<sfVars, ringVars, regVars, putVars>>
    \/ \E p \in Procs : GetterGet(p) /\ UNCHANGED <<sfVars, ringVars, regVars, putVars>>
    \/ \E p \in Procs : PopulateCache(p) /\ UNCHANGED <<sfVars, ringVars, regVars, putVars>>
    \/ \E p \in Procs : ByteSlice(p) /\ UNCHANGED <<sfVars, ringVars, regVars, putVars>>
    \/ \E ref \in DOMAIN heap :
          MutateBuf(ref) /\ UNCHANGED <<sfVars, ringVars, regVars, putVars>>

\* NewGroup(name, 0, getter): no capacity limit
SliceInit == GroupInit /\ cacheBytes = 0

SpecSlices == SliceInit /\ [][SliceNext]_vars

(***************************************************************************)
(* Claims about the namespace.                                             *)
(***************************************************************************)
Returned(k) == {p \in Procs : gkey[p] = k /\ gpc[p] = "done"}

\* C4: callers that call Get(key) concurrently for a key that is not cached
\* cause one invocation of the loader: as long as no Get(key) has returned
\* (every call made so far overlaps every other), the loader has been invoked
\* for key at most once.
C4_SingleLoad ==
    \A k \in GroupKeys \ {""} : Returned(k) = {} => loads[k] <= 1

\* C5: a Get(key) that begins after a Get(key) returned bytes B successfully,
\* with key not evicted since, returns B without an error.
C5_ServedFromCache ==
    \A p \in Procs :
        (gpc[p] = "done" /\ gkey[p] # "" /\ gafter[p] # << >>)
            => (gerr[p] = "" /\ Bytes(gval[p]) = gafter[p][1])

\* C6: a Get whose loader fails returns the wrapped error and ByteView{},
\* and leaves the cache as it was (the lookup that missed included); a key
\* whose loader never succeeded is not in the cache; and a Get of a key that
\* is not in the cache goes to the loader.
C6_LoaderFailure ==
    /\ [][ \A p \in Procs :
             /\ (gpc[p] = "load" /\ gpc'[p] = "done")
                    => /\ gerr'[p] = "getter failed"
                       /\ gval'[p] = ByteView(0)
                       /\ lru' = lru
                       /\ loads'[gkey[p]] = loads[gkey[p]] + 1
             /\ (gpc[p] = "idle" /\ gpc'[p] = "load")
                    => /\ lru' = lru
                       /\ gkey'[p] \notin CacheKeys(lru) ]_vars
    /\ [][ \A p \in Procs :
             (/\ gpc[p] = "idle" /\ gpc'[p] # "idle"
              /\ gkey'[p] # "" /\ gkey'[p] \notin CacheKeys(lru))
                 => gpc'[p] = "load" ]_vars
    /\ [](CacheKeys(lru) \subseteq loadOK)

\* C6 witness: two Gets of one key failed one after the other, the loader
\* was invoked for each, and the key is not in the cache.
C6_Witness ==
    \E p, q \in Procs :
        /\ p # q /\ gkey[p] = gkey[q]
        /\ gpc[p] = "done" /\ gerr[p] = "getter failed"
        /\ gpc[q] = "done" /\ gerr[q] = "getter failed"
        /\ loads[gkey[p]] = 2 /\ gkey[p] \notin CacheKeys(lru)
        /\ CacheKeys(lru) # {}

\* C7: Get("") returns the error at once: the loader is not invoked and the
\* cache (entries, byte usage, recency order) and the buffers are unchanged.
C7_EmptyKey ==
    [][ \A p \in Procs :
          (gpc[p] = "idle" /\ gpc'[p] # "idle" /\ gkey'[p] = "")
              => /\ gpc'[p] = "done"
                 /\ gerr'[p] = "key is required"
                 /\ gval'[p] = ByteView(0)
                 /\ lru' = lru /\ loads' = loads /\ heap' = heap ]_vars

\* C7 witness: Get("") has returned its error beside a cache that holds an entry.
C7_Witness ==
    \E p \in Procs :
        /\ gpc[p] = "done" /\ gkey[p] = "" /\ gerr[p] = "key is required"
        /\ CacheKeys(lru) # {}

\* The ByteViews held: by the cache, and by the callers of a successful Get.
Held ==
    {lru[i].ll[j].value : <<i, j>> \in
        {x \in (1..Len(lru)) \X (1..2 * NProcs) : x[2] <= Len(lru[x[1]].ll)}}
    \cup {gval[p] : p \in {q \in Procs : gpc[q] \in {"populate", "done"} /\ gerr[q] = ""
                                          /\ gval[q].b # 0}}

\* C10: whatever the Getter and the callers write to the slices they hold,
\* every ByteView held reads the bytes the Getter returned at load time.
C10_Immutable == \A v \in Held : Bytes(v) = origin[v.b]

\* C10 witness: the Getter overwrote the slice it returned and a caller
\* overwrote its ByteSlice copy, and a later Get was served from the cache.
C10_Witness ==
    \E p, q \in Procs :
        /\ p # q
        /\ gpc[p] = "done" /\ gerr[p] = "" /\ copies[p] # << >>
        /\ heap[copies[p][1]] # Bytes(gval[p])
        /\ \E ref \in loaderBufs : heap[ref] # origin[ref]
        /\ gpc[q] = "done" /\ gerr[q] = "" /\ loads[gkey[q]] = 1
        /\ gkey[q] = gkey[p] /\ gval[q] = gval[p]

(***************************************************************************)
(* package singleflight: Group.Do, one caller p per call.  g.mu.Lock() is   *)
(* a step of its own; the statements from there to g.mu.Unlock() are one.  *)
(***************************************************************************)
\* The map behind g.m, empty when g.m is nil.
SfTable == IF sfm = << >> THEN << >> ELSE sfm[1]

\* The highest count returned so far to a Do(key, ...) that ran fn itself.
HighestReturned(key) ==
    LET S == {sret[q].val : q \in {r \in Procs : /\ skey[r] = key
                                                  /\ spc[r] = "done"
                                                  /\ sc[r] = r}}
    IN  IF S = {} THEN 0 ELSE CHOOSE x \in S : \A y \in S : y <= x

\* Do is called: the caller is about to take g.mu
SfCall(p, key) ==
    /\ spc[p] = "idle"
    /\ spc' = [spc EXCEPT ![p] = "lock"]
    /\ skey' = [skey EXCEPT ![p] = key]
    /\ late' = [late EXCEPT ![p] =
                   \E q \in Procs : skey[q] = key /\ spc[q] = "done"]
    /\ stale' = [stale EXCEPT ![p] = HighestReturned(key)]
    /\ UNCHANGED <<sfm, calls, sc, sret, fnRuns, sfmu>>

\* g.mu.Lock(), on entry
SfLock(p) ==
    /\ spc[p] = "lock"
    /\ sfmu = 0
    /\ sfmu' = p
    /\ spc' = [spc EXCEPT ![p] = "locked"]
    /\ UNCHANGED <<sfm, calls, skey, sc, sret, fnRuns, late, stale>>

\* A mutation of SfEnter: g.mu.Unlock() is missing where a new call is
\* registered, fn runs under the lock.
SfEnterHolds(p) ==
    LET key == skey[p]
    IN  /\ spc[p] = "locked"
        /\ IF key \in DOMAIN SfTable
           THEN /\ sc' = [sc EXCEPT ![p] = SfTable[key]]
                /\ spc' = [spc EXCEPT ![p] = "wait"]
                /\ sfm' = <<SfTable>>
                /\ sfmu' = 0
                /\ UNCHANGED calls
           ELSE /\ calls' = calls @@ (p :> [wg |-> 1, val |-> 0, err |-> ""])
                /\ sc' = [sc EXCEPT ![p] = p]
                /\ sfm' = <<SfTable @@ (key :> p)>>
                /\ spc' = [spc EXCEPT ![p] = "fn"]
                /\ sfmu' = sfmu
        /\ UNCHANGED <<skey, sret, fnRuns, late, stale>>

\* A mutation of SfEnter: the lookup of key in g.m is missing, every caller
\* registers a call of its own.
SfEnterAlways(p) ==
    LET key == skey[p]
    IN  /\ spc[p] = "locked"
        /\ sfmu' = 0
        /\ calls' = calls @@ (p :> [wg |-> 1, val |-> 0, err |-> ""])
        /\ sc' = [sc EXCEPT ![p] = p]
        /\ sfm' = <<(key :> p) @@ SfTable>>
        /\ spc' = [spc EXCEPT ![p] = "fn"]
        /\ UNCHANGED <<skey, sret, fnRuns, late, stale>>

\* Do, first section: the map is made if nil; a call found for key is
\* waited for, otherwise a new call (the caller's own, at reference p) is
\* registered with wg.Add(1); g.mu.Unlock() on both branches
SfEnter(p) ==
    LET key == skey[p]
    IN  /\ spc[p] = "locked"
        /\ sfmu' = 0
        /\ IF key \in DOMAIN SfTable
           THEN /\ sc' = [sc EXCEPT ![p] = SfTable[key]]
                /\ spc' = [spc EXCEPT ![p] = "wait"]
                /\ sfm' = <<SfTable>>
                /\ UNCHANGED calls
           ELSE /\ calls' = calls @@ (p :> [wg |-> 1, val |-> 0, err |-> ""])
                /\ sc' = [sc EXCEPT ![p] = p]
                /\ sfm' = <<SfTable @@ (key :> p)>>
                /\ spc' = [spc EXCEPT ![p] = "fn"]
        /\ UNCHANGED <<skey, sret, fnRuns, late, stale>>

\* c.val, c.err = fn(): fn counts its runs and returns the count, with or
\* without an error
SfFn(p) ==
    /\ spc[p] = "fn"
    /\ fnRuns' = [fnRuns EXCEPT ![skey[p]] = @ + 1]
    /\ \E e \in FnErrs :
          calls' = [calls EXCEPT ![sc[p]].val = fnRuns'[skey[p]],
                                 ![sc[p]].err = e]
    /\ spc' = [spc EXCEPT ![p] = "signal"]
    /\ UNCHANGED <<sfm, skey, sc, sret, late, sfmu, stale>>

\* A mutation of SfDone: c.wg.Done() is missing.
SfDoneNot(p) ==
    /\ spc[p] = "signal"
    /\ calls' = calls
    /\ spc' = [spc EXCEPT ![p] = "cleanup"]
    /\ UNCHANGED <<sfm, skey, sc, sret, fnRuns, late, sfmu, stale>>

\* c.wg.Done()
SfDone(p) ==
    /\ spc[p] = "signal"
    /\ calls' = [calls EXCEPT ![sc[p]].wg = @ - 1]
    /\ spc' = [spc EXCEPT ![p] = "cleanup"]
    /\ UNCHANGED <<sfm, skey, sc, sret, fnRuns, late, sfmu, stale>>

\* g.mu.Lock(), after c.wg.Done()
SfRelock(p) ==
    /\ spc[p] = "cleanup"
    /\ sfmu = 0
    /\ sfmu' = p
    /\ spc' = [spc EXCEPT ![p] = "relocked"]
    /\ UNCHANGED <<sfm, calls, skey, sc, sret, fnRuns, late, stale>>

\* A mutation of SfCleanup: delete(g.m, key) is missing.
SfCleanupKeeps(p) ==
    /\ spc[p] = "relocked"
    /\ sfmu' = 0
    /\ sfm' = sfm
    /\ sret' = [sret EXCEPT ![p] = [val |-> calls[sc[p]].val,
                                    err |-> calls[sc[p]].err]]
    /\ spc' = [spc EXCEPT ![p] = "done"]
    /\ UNCHANGED <<calls, skey, sc, fnRuns, late, stale>>

\* Do, last section: delete(g.m, key), g.mu.Unlock(), then return c.val, c.err
SfCleanup(p) ==
    /\ spc[p] = "relocked"
    /\ sfmu' = 0
    /\ sfm' = <<[k \in DOMAIN SfTable \ {skey[p]} |-> SfTable[k]]>>
    /\ sret' = [sret EXCEPT ![p] = [val |-> calls[sc[p]].val,
                                    err |-> calls[sc[p]].err]]
    /\ spc' = [spc EXCEPT ![p] = "done"]
    /\ UNCHANGED <<calls, skey, sc, fnRuns, late, stale>>

\* A mutation of SfWait: the waiter returns c.val, nil.
SfWaitNoErr(p) ==
    /\ spc[p] = "wait"
    /\ calls[sc[p]].wg = 0
    /\ sret' = [sret EXCEPT ![p] = [val |-> calls[sc[p]].val, err |-> ""]]
    /\ spc' = [spc EXCEPT ![p] = "done"]
    /\ UNCHANGED <<sfm, calls, skey, sc, fnRuns, late, sfmu, stale>>

\* A mutation of SfWait: c.wg.Wait() is missing.
SfWaitNot(p) ==
    /\ spc[p] = "wait"
    /\ sret' = [sret EXCEPT ![p] = [val |-> calls[sc[p]].val,
                                    err |-> calls[sc[p]].err]]
    /\ spc' = [spc EXCEPT ![p] = "done"]
    /\ UNCHANGED <<sfm, calls, skey, sc, fnRuns, late, sfmu, stale>>

\* Do, the waiter: c.wg.Wait() returns once the counter is 0, then
\* return c.val, c.err
SfWait(p) ==
    /\ spc[p] = "wait"
    /\ calls[sc[p]].wg = 0
    /\ sret' = [sret EXCEPT ![p] = [val |-> calls[sc[p]].val,
                                    err |-> calls[sc[p]].err]]
    /\ spc' = [spc EXCEPT ![p] = "done"]
    /\ UNCHANGED <<sfm, calls, skey, sc, fnRuns, late, sfmu, stale>>

SfInit ==
    /\ LruIdle
    /\ GroupIdle
    /\ RingIdle
    /\ RegIdle
    /\ PutIdle
    /\ sfm = << >>
    /\ calls = << >>
    /\ spc = [p \in Procs |-> "idle"]
    /\ skey = [p \in Procs |-> ""]
    /\ sc = [p \in Procs |-> 0]
    /\ sret = [p \in Procs |-> [val |-> 0, err |-> ""]]
    /\ fnRuns = [k \in SfKeys |-> 0]
    /\ late = [p \in Procs |-> FALSE]
    /\ sfmu = 0
    /\ stale = [p \in Procs |-> 0]

\* The callers are numbered in the order in which they call Do.
NextCaller(p) == \A q \in Procs : q < p => spc[q] # "idle"

SfNext ==
    \/ \E p \in Procs, key \in SfKeys :
          NextCaller(p) /\ SfCall(p, key)
              /\ UNCHANGED <<lruVars, groupVars, ringVars, regVars, putVars>>
    \/ \E p \in Procs :
          SfLock(p) /\ UNCHANGED <<lruVars, groupVars, ringVars, regVars, putVars>>
    \/ \E p \in Procs :
          SfEnter(p) /\ UNCHANGED <<lruVars, groupVars, ringVars, regVars, putVars>>
    \/ \E p \in Procs :
          SfFn(p) /\ UNCHANGED <<lruVars, groupVars, ringVars, regVars, putVars>>
    \/ \E p \in Procs :
          SfDone(p) /\ UNCHANGED <<lruVars, groupVars, ringVars, regVars, putVars>>
    \/ \E p \in Procs :
          SfRelock(p) /\ UNCHANGED <<lruVars, groupVars, ringVars, regVars, putVars>>
    \/ \E p \in Procs :
          SfCleanup(p) /\ UNCHANGED <<lruVars, groupVars, ringVars, regVars, putVars>>
    \/ \E p \in Procs :
          SfWait(p) /\ UNCHANGED <<lruVars, groupVars, ringVars, regVars, putVars>>

SpecSF == SfInit /\ [][SfNext]_vars

(***************************************************************************)
(* The deduplicator under a fair scheduler: a caller inside Do that can    *)
(* take its next step, and stays able to, takes it (a goroutine that is    *)
(* runnable runs; one that waits for g.mu or for c.wg is runnable once the *)
(* lock is free or the counter 0).  Whether fn returns is the caller's     *)
(* affair: in SpecSFFair every fn returns, in SpecSFBlocked the fn of the  *)
(* key BlockedKey may never return.                                        *)
(***************************************************************************)
SfRest == UNCHANGED <<lruVars, groupVars, ringVars, regVars, putVars>>

\* The steps of a caller inside Do, fn apart
SfRun(p) ==
    /\ \/ SfLock(p) \/ SfEnter(p) \/ SfWait(p)
       \/ SfDone(p) \/ SfRelock(p) \/ SfCleanup(p)
    /\ SfRest

\* fn returns
SfReturn(p) == SfFn(p) /\ SfRest

SfFair == \A p \in Procs : WF_vars(SfRun(p))

SpecSFFair ==
    SfInit /\ [][SfNext]_vars /\ SfFair /\ \A p \in Procs : WF_vars(SfReturn(p))

BlockedKey == "a"

SpecSFBlocked ==
    /\ SfInit /\ [][SfNext]_vars /\ SfFair
    /\ \A p \in Procs : WF_vars(SfReturn(p) /\ skey[p] # BlockedKey)

(***************************************************************************)
(* Claims about the deduplicator.                                          *)
(***************************************************************************)
Callers(k) == {p \in Procs : spc[p] # "idle" /\ skey[p] = k}

AllReturned(k) == Callers(k) # {} /\ \A p \in Callers(k) : spc[p] = "done"

\* C3 as stated: when the callers of Do(key, ...) are concurrent (each called
\* Do before any of them returned), then once all have returned fn has run
\* exactly once and all were returned the same (val, err).
C3_Dedup ==
    \A k \in SfKeys :
        (AllReturned(k) /\ \A p \in Callers(k) : ~late[p])
            => /\ fnRuns[k] = 1
               /\ \A p, q \in Callers(k) : sret[p] = sret[q]

\* C3 amended: when the callers of Do(key, ...) all joined one call (each
\* registered it or found it in the map), then once all have returned fn has
\* run exactly once and all were returned the same (val, err).
C3_DedupOneCall ==
    \A k \in SfKeys :
        (AllReturned(k) /\ \A p, q \in Callers(k) : sc[p] = sc[q])
            => /\ fnRuns[k] = 1
               /\ \A p, q \in Callers(k) : sret[p] = sret[q]

\* C3 witness: every caller called Do with one key, all joined one call,
\* all have returned, and what they were returned is an error.
C3_Witness ==
    \E k \in SfKeys :
        /\ Callers(k) = Procs /\ AllReturned(k)
        /\ \A p, q \in Procs : sc[p] = sc[q]
        /\ \A p \in Procs : sret[p].err = "boom" /\ sret[p].val = 1

(***************************************************************************)
(* package consistenthash.  The hash function is a parameter of New: it is *)
(* any function from strings to 0..HashSpace-1, fixed string by string the *)
(* first time the string is hashed.                                        *)
(***************************************************************************)
Digits == <<"0", "1", "2", "3", "4", "5", "6", "7", "8", "9">>

\* strconv.Itoa, for i >= 0
RECURSIVE Itoa(_)
Itoa(i) ==
    IF i < 10 THEN Digits[i + 1] ELSE Itoa(i \div 10) \o Digits[(i % 10) + 1]

\* strconv.Itoa(i) + key
VirtualKey(i, key) == Itoa(i) \o key

\* sort.Ints, by insertion
RECURSIVE InsertInt(_, _)
InsertInt(sorted, x) ==
    IF sorted = << >> THEN <<x>>
    ELSE IF x <= Head(sorted) THEN <<x>> \o sorted
    ELSE <<Head(sorted)>> \o InsertInt(Tail(sorted), x)

RECURSIVE SortInts(_)
SortInts(q) ==
    IF q = << >> THEN << >> ELSE InsertInt(SortInts(Tail(q)), Head(q))

\* sort.Search(len(keys), func(i) bool { return keys[i] >= h }): the binary
\* search between i and j, indices from 0
RECURSIVE Search(_, _, _, _)
Search(keys, h, i, j) ==
    IF i < j
    THEN LET mid == (i + j) \div 2
         IN  IF keys[mid + 1] >= h
             THEN Search(keys, h, i, mid)
             ELSE Search(keys, h, mid + 1, j)
    ELSE i

\* Map.Add, the inner loop from replica i on, for one peer
RECURSIVE AddReplicas(_, _, _, _)
AddReplicas(m, key, i, hf) ==
    IF i < replicas
    THEN LET h == hf[VirtualKey(i, key)]
         IN  AddReplicas([keys |-> Append(m.keys, h),
                          hashMap |-> [x \in DOMAIN m.hashMap \cup {h} |->
                                         IF x = h THEN key ELSE m.hashMap[x]]],
                         key, i + 1, hf)
    ELSE m

\* Map.Add, the outer loop over the peers
RECURSIVE AddPeers(_, _, _)
AddPeers(m, keys, hf) ==
    IF keys = << >> THEN m
    ELSE AddPeers(AddReplicas(m, Head(keys), 0, hf), Tail(keys), hf)

\* A mutation of MapAdd: sort.Ints(m.keys) is missing.
MapAddUnsorted(m, keys, hf) == AddPeers(m, keys, hf)

\* Map.Add
MapAdd(m, keys, hf) ==
    LET a == AddPeers(m, keys, hf)
    IN  [a EXCEPT !.keys = SortInts(@)]

\* Map.Get
MapGet(m, key, hf) ==
    IF Len(m.keys) = 0
    THEN ""
    ELSE LET idx == Search(m.keys, hf[key], 0, Len(m.keys))
         IN  m.hashMap[m.keys[(idx % Len(m.keys)) + 1]]

HashVals == 0..(HashSpace - 1)
PeerLists == {<<a>> : a \in Peers} \cup {<<a, b>> : a \in Peers, b \in Peers}
SeqRange(q) == {q[i] : i \in 1..Len(q)}

\* A client calls Add(keys...)
RingAdd(keys) ==
    LET need == {VirtualKey(i, k) : i \in 0..(replicas - 1), k \in SeqRange(keys)}
                    \ DOMAIN hash
    IN  /\ Len(ring.keys) + replicas * Len(keys) <= MaxNodes
        /\ \E ext \in [need -> HashVals] :
              /\ hash' = hash @@ ext
              /\ ring' = MapAdd(ring, keys, hash')
        /\ added' = added \cup SeqRange(keys)
        /\ got' = NoGet
        /\ UNCHANGED replicas

\* A client calls Get(key)
RingGet(key) ==
    /\ \E ext \in [{key} \ DOMAIN hash -> HashVals] : hash' = hash @@ ext
    /\ got' = [key |-> key, peer |-> MapGet(ring, key, hash')]
    /\ UNCHANGED <<ring, replicas, added>>

RingInit ==
    /\ LruIdle /\ GroupIdle /\ SfIdle /\ RegIdle /\ PutIdle
    /\ ring = [keys |-> << >>, hashMap |-> << >>]
    /\ replicas \in 0..MaxReplicas
    /\ hash = << >>
    /\ added = {}
    /\ got = NoGet

RingNext ==
    \/ \E keys \in PeerLists :
          RingAdd(keys) /\ UNCHANGED <<lruVars, groupVars, sfVars, regVars, putVars>>
    \/ \E key \in LookupKeys :
          RingGet(key) /\ UNCHANGED <<lruVars, groupVars, sfVars, regVars, putVars>>

SpecRing == RingInit /\ [][RingNext]_vars

(***************************************************************************)
(* Claims about the ring.                                                  *)
(***************************************************************************)
NodeHashes(m) == {m.keys[i] : i \in 1..Len(m.keys)}

\* The peer recorded for the first virtual node at or after h, clockwise.
Owner(m, h) ==
    LET S == NodeHashes(m)
        ge == {x \in S : x >= h}
    IN  IF S = {} THEN ""
        ELSE m.hashMap[IF ge # {} THEN Min(ge) ELSE Min(S)]

\* C8: Get(key) returns the peer recorded for the smallest virtual-node hash
\* that is >= hash(key), the peer recorded for the smallest virtual-node hash
\* of all when there is none, and "" on a ring without virtual nodes.
C8_Clockwise ==
    /\ \A i \in 1..(Len(ring.keys) - 1) : ring.keys[i] <= ring.keys[i + 1]
    /\ got # NoGet => got.peer = Owner(ring, hash[got.key])

\* C8 witness: a Get whose key hashes above every virtual node of a ring of
\* all the peers was answered with the peer of the smallest virtual-node hash.
C8_Witness ==
    /\ got # NoGet /\ added = Peers
    /\ \A x \in NodeHashes(ring) : x < hash[got.key]
    /\ Cardinality(NodeHashes(ring)) >= 2
    /\ got.peer = ring.hashMap[Min(NodeHashes(ring))]
    /\ got.peer # ring.hashMap[ring.keys[Len(ring.keys)]]

\* The ring of a set of peers, added in one call in a fixed order.
RECURSIVE PeerSeq(_)
PeerSeq(S) ==
    IF S = {} THEN << >>
    ELSE LET a == CHOOSE x \in S : TRUE IN <<a>> \o PeerSeq(S \ {a})

\* C9: a ring answers as every other ring with the same replica count, hash
\* function and set of peers does, in whatever order or grouping of Add
\* calls the peers were added (and Get leaves the ring as it was).
C9_Determinism ==
    got # NoGet =>
        got.peer = MapGet(MapAdd([keys |-> << >>, hashMap |-> << >>],
                                 PeerSeq(added), hash),
                          got.key, hash)

(***************************************************************************)
(* geecache.go: the registry.  groups is the map behind the RWMutex mu;    *)
(* each caller p makes one call of NewGroup or GetGroup.  mu.Lock() and    *)
(* mu.RLock() are steps of their own.                                      *)
(***************************************************************************)
GroupNames == {"scores", "users"}

\* The getters passed to NewGroup: << >> is nil.
Getters == {<< >>, <<"db">>}

\* NewGroup, getter == nil: panic("nil Getter"), before mu is touched
NewGroupPanic(p, name, getter) ==
    /\ rpc[p] = "idle"
    /\ rarg' = [rarg EXCEPT ![p] = [op |-> "NewGroup", name |-> name,
                                    getter |-> getter]]
    /\ rpc' = [rpc EXCEPT ![p] = "panic"]
    /\ UNCHANGED <<groups, regmu, rret>>

\* NewGroup, getter != nil: the caller is about to take mu
NewGroupProceed(p, name, getter) ==
    /\ rpc[p] = "idle"
    /\ rarg' = [rarg EXCEPT ![p] = [op |-> "NewGroup", name |-> name,
                                    getter |-> getter]]
    /\ rpc' = [rpc EXCEPT ![p] = "lock"]
    /\ UNCHANGED <<groups, regmu, rret>>

\* A mutation of NewGroup: the getter == nil check is missing.
NewGroupUnchecked(p, name, getter) == NewGroupProceed(p, name, getter)

\* NewGroup is called
NewGroup(p, name, getter) ==
    IF getter = << >>
    THEN NewGroupPanic(p, name, getter)
    ELSE NewGroupProceed(p, name, getter)

\* NewGroup: mu.Lock()
RegLock(p) ==
    /\ rpc[p] = "lock"
    /\ regmu = NoLock
    /\ regmu' = [regmu EXCEPT !.w = p]
    /\ rpc' = [rpc EXCEPT ![p] = "locked"]
    /\ UNCHANGED <<groups, rarg, rret>>

\* NewGroup: g := &Group{...}; groups[name] = g; return g, and the deferred
\* mu.Unlock().  The Group is known by its getter and by the call that made it.
RegRegister(p) ==
    LET g == [getter |-> rarg[p].getter, by |-> p]
    IN  /\ rpc[p] = "locked"
        /\ groups' = (rarg[p].name :> g) @@ groups
        /\ rret' = [rret EXCEPT ![p] = <<g>>]
        /\ regmu' = [regmu EXCEPT !.w = 0]
        /\ rpc' = [rpc EXCEPT ![p] = "done"]
        /\ UNCHANGED rarg

\* GetGroup is called: the caller is about to take mu for reading
GetGroup(p, name) ==
    /\ rpc[p] = "idle"
    /\ rarg' = [rarg EXCEPT ![p] = [op |-> "GetGroup", name |-> name,
                                    getter |-> << >>]]
    /\ rpc' = [rpc EXCEPT ![p] = "rlock"]
    /\ UNCHANGED <<groups, regmu, rret>>

\* GetGroup: mu.RLock()
RegRLock(p) ==
    /\ rpc[p] = "rlock"
    /\ regmu.w = 0
    /\ regmu' = [regmu EXCEPT !.r = @ \cup {p}]
    /\ rpc' = [rpc EXCEPT ![p] = "rlocked"]
    /\ UNCHANGED <<groups, rarg, rret>>

\* GetGroup: g := groups[name]; mu.RUnlock(); return g
RegRead(p) ==
    /\ rpc[p] = "rlocked"
    /\ rret' = [rret EXCEPT ![p] = IF rarg[p].name \in DOMAIN groups
                                   THEN <<groups[rarg[p].name]>> ELSE << >>]
    /\ regmu' = [regmu EXCEPT !.r = @ \ {p}]
    /\ rpc' = [rpc EXCEPT ![p] = "done"]
    /\ UNCHANGED <<groups, rarg>>

RegInit ==
    /\ LruIdle /\ GroupIdle /\ SfIdle /\ RingIdle /\ PutIdle
    /\ groups = << >>
    /\ regmu = NoLock
    /\ rpc = [p \in Procs |-> "idle"]
    /\ rarg = [p \in Procs |-> [op |-> "", name |-> "", getter |-> << >>]]
    /\ rret = [p \in Procs |-> << >>]

RegNext ==
    \/ \E p \in Procs, name \in GroupNames, getter \in Getters :
          NewGroup(p, name, getter)
              /\ UNCHANGED <<lruVars, groupVars, sfVars, ringVars, putVars>>
    \/ \E p \in Procs :
          RegLock(p) /\ UNCHANGED <<lruVars, groupVars, sfVars, ringVars, putVars>>
    \/ \E p \in Procs :
          RegRegister(p) /\ UNCHANGED <<lruVars, groupVars, sfVars, ringVars, putVars>>
    \/ \E p \in Procs, name \in GroupNames :
          GetGroup(p, name)
              /\ UNCHANGED <<lruVars, groupVars, sfVars, ringVars, putVars>>
    \/ \E p \in Procs :
          RegRLock(p) /\ UNCHANGED <<lruVars, groupVars, sfVars, ringVars, putVars>>
    \/ \E p \in Procs :
          RegRead(p) /\ UNCHANGED <<lruVars, groupVars, sfVars, ringVars, putVars>>

SpecRegistry == RegInit /\ [][RegNext]_vars

(***************************************************************************)
(* Claims about the registry.                                              *)
(***************************************************************************)
\* C11: NewGroup with a nil getter panics at once: it returns no Group, the
\* registry and its lock are as they were before the call, no Group in the
\* registry has a nil getter or comes from such a call, and mu is held only
\* by callers inside their locked section, so the other calls go on.
C11_FailFast ==
    /\ [][ \A p \in Procs :
             (/\ rpc[p] = "idle" /\ rpc'[p] # "idle"
              /\ rarg'[p].op = "NewGroup" /\ rarg'[p].getter = << >>)
                 => /\ rpc'[p] = "panic"
                    /\ groups' = groups
                    /\ regmu' = regmu
                    /\ rret'[p] = << >> ]_vars
    /\ [](\A p \in Procs :
             rpc[p] = "panic"
                 => /\ regmu.w # p /\ p \notin regmu.r
                    /\ rret[p] = << >>
                    /\ \A n \in DOMAIN groups : groups[n].by # p)
    /\ [](\A n \in DOMAIN groups : groups[n].getter # << >>)
    /\ []((regmu.w # 0 => rpc[regmu.w] = "locked")
          /\ \A q \in regmu.r : rpc[q] = "rlocked")

\* C11 witness: a NewGroup with a nil getter panicked; of the other callers
\* one registered a Group under the same name and one got it from GetGroup.
C11_Witness ==
    \E p, q, r \in Procs :
        /\ rpc[p] = "panic" /\ rarg[p].op = "NewGroup"
        /\ rpc[q] = "done" /\ rarg[q].op = "NewGroup"
        /\ rarg[q].name = rarg[p].name
        /\ rpc[r] = "done" /\ rarg[r].op = "GetGroup"
        /\ rarg[r].name = rarg[p].name
        /\ rret[r] = <<groups[rarg[p].name]>> /\ rret[r] = rret[q]
        /\ regmu = NoLock

(***************************************************************************)
(* Further claims about the deduplicator.                                  *)
(***************************************************************************)
\* The callers of Do(k, ...) that are inside fn.
Executing(k) == {p \in Procs : skey[p] = k /\ spc[p] = "fn"}

\* The callers of Do(k, ...) that registered a call and have not deleted it.
Registered(k) ==
    {p \in Procs : /\ skey[p] = k /\ sc[p] = p
                   /\ spc[p] \in {"fn", "signal", "cleanup", "relocked"}}

\* C12: for every key at most one caller is inside fn and at most one call is
\* registered and not yet deleted; the map holds the key exactly while that
\* call is, and holds that call; an entry is put by a caller that found none,
\* is never replaced, and is deleted by the caller that put it, after its
\* wg.Done().
C12_OneInFlight ==
    /\ [](\A k \in SfKeys :
             /\ Cardinality(Executing(k)) <= 1
             /\ Cardinality(Registered(k)) <= 1
             /\ k \in DOMAIN SfTable <=> Registered(k) # {}
             /\ k \in DOMAIN SfTable => SfTable[k] \in Registered(k))
    /\ [][ \A k \in SfKeys :
             /\ (k \notin DOMAIN SfTable /\ k \in DOMAIN SfTable')
                    => \E p \in Procs :
                          /\ spc[p] = "locked" /\ spc'[p] = "fn"
                          /\ skey[p] = k /\ SfTable'[k] = p
             /\ (k \in DOMAIN SfTable /\ k \in DOMAIN SfTable')
                    => SfTable'[k] = SfTable[k]
             /\ (k \in DOMAIN SfTable /\ k \notin DOMAIN SfTable')
                    => \E p \in Procs :
                          /\ spc[p] = "relocked" /\ spc'[p] = "done"
                          /\ skey[p] = k /\ SfTable[k] = p /\ sc[p] = p
                          /\ calls[p].wg = 0 ]_vars

\* C12 witness: a call for a key is registered and its fn is running, a second
\* caller waits for it, and an earlier call for the same key, registered by a
\* third caller, has been deleted.
C12_Witness ==
    \E p, q, r \in Procs :
        /\ skey[p] = skey[q] /\ skey[q] = skey[r]
        /\ spc[p] = "fn" /\ SfTable[skey[p]] = p
        /\ spc[q] = "wait" /\ sc[q] = p
        /\ spc[r] = "done" /\ sc[r] = r

\* The (val, err) a call holds.
Outcome(c) == [val |-> calls[c].val, err |-> calls[c].err]

\* The callers that found a call for their key and did not register one.
Waiters == {p \in Procs : sc[p] # 0 /\ sc[p] # p}

\* C13: a caller that found a call in the map never runs fn; it returns only
\* once that call's wg.Done() has happened, and what it returns is the
\* (val, err) that fn returned to the caller that registered the call, which
\* nothing changes after wg.Done(), an error like a value.
C13_WaitersShare ==
    /\ [](\A p \in Waiters :
             /\ spc[p] \in {"wait", "done"}
             /\ spc[p] = "done"
                    => /\ calls[sc[p]].wg = 0
                       /\ sret[p] = Outcome(sc[p])
                       /\ spc[sc[p]] = "done" => sret[p] = sret[sc[p]])
    /\ [][ /\ \A p \in Procs :
                (spc[p] = "wait" /\ spc'[p] # "wait")
                    => /\ spc'[p] = "done"
                       /\ calls[sc[p]].wg = 0
                       /\ spc[sc[p]] \in {"cleanup", "relocked", "done"}
                       /\ sret'[p] = Outcome(sc[p])
                       /\ fnRuns' = fnRuns
           /\ \A c \in DOMAIN calls :
                /\ calls[c].wg = 0 => calls'[c] = calls[c]
                /\ Outcome(c)' # Outcome(c)
                       => spc[c] = "fn" /\ spc'[c] = "signal" ]_vars

\* C13 witness: two callers waited for the call a third one registered, fn
\* returned an error, and all three have returned that error and fn's value.
C13_Witness ==
    \E p \in Procs :
        /\ spc[p] = "done" /\ sc[p] = p /\ sret[p].err = "boom"
        /\ \A q \in Procs \ {p} :
              /\ q \in Waiters /\ sc[q] = p /\ spc[q] = "done"
              /\ sret[q] = sret[p]
        /\ fnRuns[skey[p]] = 1

\* C14: a Do(key, ...) called after a Do of the same key that ran fn has
\* returned (so after that call was deleted from the map) is never returned
\* that call's outcome or an older one: a caller that finds no call for its
\* key registers a new one and runs fn again, and every caller is returned
\* the outcome of a run of fn later than all those that had been returned by
\* their executors when it called Do.
C14_NoCaching ==
    /\ [](\A p \in Procs : spc[p] = "done" => sret[p].val > stale[p])
    /\ [][ \A p \in Procs :
             /\ (/\ spc[p] = "locked" /\ spc'[p] # "locked"
                 /\ skey[p] \notin DOMAIN SfTable)
                    => /\ spc'[p] = "fn" /\ sc'[p] = p
                       /\ calls'[p] = [wg |-> 1, val |-> 0, err |-> ""]
             /\ (spc[p] = "fn" /\ spc'[p] = "signal")
                    => /\ fnRuns'[skey[p]] = fnRuns[skey[p]] + 1
                       /\ calls'[p].val = fnRuns'[skey[p]]
             /\ (spc[p] = "relocked" /\ spc'[p] = "done")
                    => /\ sret'[p] = Outcome(p)
                       /\ skey[p] \notin DOMAIN SfTable' ]_vars

\* C14 witness: a Do ran fn, was returned an error and its call was deleted;
\* a Do of the same key called after that ran fn again and was returned the
\* second count without an error.
C14_Witness ==
    \E p, q \in Procs :
        /\ p # q /\ skey[p] = skey[q]
        /\ spc[q] = "done" /\ sc[q] = q /\ sret[q] = [val |-> 1, err |-> "boom"]
        /\ spc[p] = "done" /\ sc[p] = p /\ stale[p] = 1
        /\ sret[p] = [val |-> 2, err |-> ""]
        /\ skey[p] \notin DOMAIN SfTable

KeysOf(ll) == {ll[i].key : i \in 1..Len(ll)}

\* The keys for which Get hits.
Hits(c) == {k \in LruKeys : LruGet(c, k) # << >>}

\* The key and value bytes of the entries of c with a key in S, the entry of
\* key counted with a value of vlen bytes.
RECURSIVE BytesOf(_, _, _, _)
BytesOf(c, S, key, vlen) ==
    IF S = {} THEN 0
    ELSE LET k == CHOOSE x \in S : TRUE
         IN  Len(k)
             + (IF k = key THEN vlen ELSE VLen(c.ll[IndexOf(c.ll, k)].value))
             + BytesOf(c, S \ {k}, key, vlen)

\* nbytes is the sum of key and value bytes of the entries; the index and the
\* list hold the same keys, each once; Len() is the number of keys Get hits.
Accounted(c) ==
    /\ c.nbytes = SumBytes(c.ll)
    /\ c.cache = KeysOf(c.ll)
    /\ Len(c.ll) = Cardinality(c.cache)
    /\ LruLen(c) = Cardinality(Hits(c))

\* The step is an Add of a key the cache holds.
Overwrites == lastOp'.op = "Add" /\ lastOp'.key \in lru[1].cache

\* The value bytes the entry of the key of the Add had before it.
OldLen == VLen(lru[1].ll[IndexOf(lru[1].ll, lastOp'.key)].value)

\* C16 as stated: after every operation the accounting holds, and an Add of a
\* key the cache holds changes nbytes by exactly the new value length less
\* the old one and leaves Len() as it was.
C16_Accounting ==
    /\ [](Len(lru) = 1 => Accounted(lru[1]))
    /\ [][ Overwrites
             => /\ lru'[1].nbytes = lru[1].nbytes + lastOp'.vlen - OldLen
                /\ LruLen(lru'[1]) = LruLen(lru[1]) ]_vars

\* C16 amended: after every operation the accounting holds, and an Add of a
\* key the cache holds changes nbytes by the new value length less the old
\* one, less the bytes of the entries that the Add evicts, and Len() by the
\* number of those; it evicts none when the capacity is 0 or the usage with
\* the new value is within it.
C16_AccountingNet ==
    /\ [](Len(lru) = 1 => Accounted(lru[1]))
    /\ [][ Overwrites
             => LET c == lru[1]
                    grown == c.nbytes + lastOp'.vlen - OldLen
                    out == lastOp'.victims
                IN  /\ lru'[1].nbytes
                         = grown - BytesOf(c, out, lastOp'.key, lastOp'.vlen)
                    /\ LruLen(lru'[1]) = LruLen(c) - Cardinality(out)
                    /\ (c.maxBytes = 0 \/ grown <= c.maxBytes) => out = {} ]_vars

\* C16 witness: an Add gave a longer value to a key the cache held beside
\* another entry, nothing was evicted, and both entries are counted.
C16_Witness ==
    /\ Len(lru) = 1 /\ lru[1].maxBytes > 0
    /\ lastOp.op = "Add" /\ lastOp.over /\ lastOp.vlen = 2
    /\ lastOp.victims = {} /\ LruLen(lru[1]) >= 2
    /\ lru[1].nbytes = SumBytes(lru[1].ll) /\ lru[1].nbytes >= 4

\* C17: under a capacity C > 0, an Add of an entry whose key and value bytes
\* exceed C, for a new key or one the cache holds, ends with the cache empty
\* (that entry and every earlier one evicted, usage 0, Get of the key a miss);
\* and a Group.Get that loaded such a value returns it without an error.
C17_Oversized ==
    [][ /\ \A p \in DOMAIN gpc :
             (/\ gpc[p] = "populate" /\ gpc'[p] = "done"
              /\ cacheBytes > 0
              /\ Len(gkey[p]) + VLen(gval[p]) > cacheBytes)
                 => /\ Len(lru') = 1
                    /\ lru'[1].ll = << >> /\ lru'[1].cache = {}
                    /\ lru'[1].nbytes = 0
                    /\ CacheGet(lru', gkey[p]) = << >>
                    /\ gerr'[p] = "" /\ gval'[p] = gval[p]
                    /\ heap'[gval[p].b] = heap[gval[p].b]
        /\ (/\ lastOp'.op = "Add" /\ Len(lru) = 1 /\ lru[1].maxBytes > 0
            /\ Len(lastOp'.key) + lastOp'.vlen > lru[1].maxBytes)
               => /\ lru'[1].ll = << >> /\ lru'[1].cache = {}
                  /\ lru'[1].nbytes = 0
                  /\ LruGet(lru'[1], lastOp'.key) = << >> ]_vars

\* C17 witness: under capacity 3 a Get of "bb" loaded two bytes and returned
\* them without an error; the cache is empty, the entry of "a" that an
\* earlier Get had cached included.
C17_Witness ==
    \E p, q \in Procs :
        /\ cacheBytes = 3
        /\ gpc[p] = "done" /\ gkey[p] = "bb" /\ gerr[p] = ""
        /\ Bytes(gval[p]) = <<2, 2>>
        /\ gpc[q] = "done" /\ gkey[q] = "a" /\ gerr[q] = ""
        /\ Len(lru) = 1 /\ lru[1].ll = << >> /\ lru[1].nbytes = 0

(***************************************************************************)
(* Further claims about the ring.                                          *)
(***************************************************************************)
\* The step is an Add of the one peer P, which no Add was passed before.
AddsNew(P) ==
    /\ P \notin added /\ added' = added \cup {P}
    /\ Len(ring'.keys) = Len(ring.keys) + replicas
    /\ replicas > 0

\* C18: after an Add of one peer P that the ring did not have, Get of any
\* key returns what it returned before or P, also where a virtual node of P
\* has the hash of a virtual node the ring had.
C18_Monotone ==
    [][ \A P \in Peers :
          AddsNew(P)
              => \A k \in DOMAIN hash' :
                    MapGet(ring', k, hash') \in {MapGet(ring, k, hash'), P} ]_vars

\* C18 witness: three peers were added, two virtual nodes have one hash and
\* a peer has lost every virtual node to a later one; a Get was answered.
C18_Witness ==
    /\ added = Peers /\ replicas > 0
    /\ Cardinality(NodeHashes(ring)) < Len(ring.keys)
    /\ \E a \in added : \A x \in DOMAIN ring.hashMap : ring.hashMap[x] # a
    /\ got # NoGet /\ got.peer \in added

\* The callers inside Do.
Active == {p \in Procs : spc[p] \notin {"idle", "done"}}

\* C19: under a fair scheduler and with every fn returning, every Do that is
\* called returns (a caller leaves Do only by returning, so: again and again
\* no caller is inside Do); as long as a caller is inside Do some caller
\* inside Do has a step to take; and when no caller is inside Do the map is
\* empty and g.mu is free.
C19_Liveness ==
    /\ []<>(Active = {})
    /\ [](Active # {}
             => \E q \in Active :
                   ENABLED (SfRun(q) \/ SfReturn(q)))
    /\ [](Active = {} => (DOMAIN SfTable = {} /\ sfmu = 0))

\* C19 witness: a call has been signalled complete and is not yet deleted,
\* and a caller of the same key that called Do after another Do of the key
\* had returned holds g.mu, about to find that call in the map.
C19_Witness ==
    \E e, q \in Procs :
        /\ spc[e] = "cleanup" /\ sc[e] = e /\ calls[e].wg = 0
        /\ SfTable[skey[e]] = e
        /\ spc[q] = "locked" /\ skey[q] = skey[e] /\ late[q]

(***************************************************************************)
(* Cache.Add statement by statement, for every capacity lru.New accepts,   *)
(* the negative ones included: the branches before the loop are one step,  *)
(* each test of the loop condition with what follows it another.           *)
(***************************************************************************)
\* Cache.Add, the loop condition: c.maxBytes != 0 && c.maxBytes < c.nbytes
LoopCond(c) == c.maxBytes # 0 /\ c.maxBytes < c.nbytes

\* Cache.Add up to the loop
PutInsert(key, ref) ==
    /\ putpc = "idle"
    /\ lru' = <<LruInsert(lru[1], key, ByteView(ref))>>
    /\ putpc' = "loop"
    /\ UNCHANGED <<heap, recency, lastOp>>

\* Cache.Add, the loop condition holds: c.RemoveOldest(), back to the test
PutEvict ==
    /\ putpc = "loop"
    /\ LoopCond(lru[1])
    /\ lru' = <<LruRemoveOldest(lru[1])>>
    /\ UNCHANGED <<heap, recency, lastOp, putpc>>

\* Cache.Add, the loop condition fails: Add returns
PutReturn ==
    /\ putpc = "loop"
    /\ ~LoopCond(lru[1])
    /\ putpc' = "idle"
    /\ UNCHANGED <<lru, heap, recency, lastOp>>

PutInit ==
    /\ \E mb \in (0 - MaxNeg)..MaxCap : lru = <<LruNew(mb)>>
    /\ heap = ValueBufs
    /\ recency = << >>
    /\ lastOp = NoOp
    /\ putpc = "idle"
    /\ GroupIdle /\ SfIdle /\ RingIdle /\ RegIdle

PutNext ==
    \/ \E key \in LruKeys, ref \in 1..Len(ValueBufs) :
          PutInsert(key, ref)
              /\ UNCHANGED <<groupVars, sfVars, ringVars, regVars>>
    \/ PutEvict /\ UNCHANGED <<groupVars, sfVars, ringVars, regVars>>
    \/ PutReturn /\ UNCHANGED <<groupVars, sfVars, ringVars, regVars>>

SpecPut == PutInit /\ [][PutNext]_vars

\* C20: for every capacity, the loop of Add goes on exactly while the
\* capacity is not 0, the usage exceeds it and the cache holds an entry to
\* evict, so each turn removes an entry and the Add returns; under capacity
\* 0 the loop never runs.
C20_PutTerminates ==
    putpc = "loop"
        => LET c == lru[1]
           IN  /\ LoopCond(c) <=> (/\ c.maxBytes # 0
                                   /\ c.nbytes > c.maxBytes
                                   /\ c.ll # << >>)
               /\ c.maxBytes = 0 => ~LoopCond(c)

====
